---- MODULE Spec2Model ----
(***************************************************************************)
(* Model of the metrics-derivation engine of generate_image_graphs.py:     *)
(* load_stats, get_aggregated, estimate_sla_violation_pct and              *)
(* collect_metrics.                                                        *)
(*                                                                         *)
(* A cell of a pandas row is a record: Num(v) for a number, NaN for an     *)
(* empty cell, None for the default of row.get(col, None).  A row is a     *)
(* function from column names to cells (the "Name" column holds strings).  *)
(* Python floats are modelled as exact rationals [n, d] with d > 0.        *)
(***************************************************************************)
EXTENDS Integers, Sequences, FiniteSets, TLC

\* ---------------------------------------------------------------- bounds
MaxPoints == 4
MaxRows == 3
MaxLevels == 2
MaxCount == 2

\* ------------------------------------------------------- program constants
SLA_THRESHOLD_MS == 3000

USER_COUNTS == <<10, 25, 50, 100, 200>>

pct_cols ==
  << <<50, "50%">>, <<66, "66%">>, <<75, "75%">>, <<80, "80%">>,
     <<90, "90%">>, <<95, "95%">>, <<98, "98%">>, <<99, "99%">>,
     <<100, "100%">> >>

\* ------------------------------------------------------------------ cells
Num(v) == [k |-> "num", v |-> v]
NaN == [k |-> "nan", v |-> 0]
None == [k |-> "none", v |-> 0]

\* pd.isna(val)
isna(val) == val.k = "nan"

\* row.get(col, default)
Get(row, col, default) == IF col \in DOMAIN row THEN row[col] ELSE default

\* -------------------------------------------------------------- rationals
Rat(n, d) == [n |-> n, d |-> d]
Zero == Rat(0, 1)
Hundred == Rat(100, 1)
RatLe(a, b) == a.n * b.d <= b.n * a.d
RatLt(a, b) == a.n * b.d < b.n * a.d
RatEq(a, b) == a.n * b.d = b.n * a.d

\* ------------------------------------------------ estimate_sla_violation_pct
\* The loop of lines 89-93: the (percentile, response_time) pairs of the
\* columns that are present and not NaN, in the order of pct_cols.
RECURSIVE BuildPoints(_, _)
BuildPoints(row, j) ==
  IF j > Len(pct_cols) THEN <<>>
  ELSE LET pct == pct_cols[j][1]
           col == pct_cols[j][2]
           val == Get(row, col, None)
       IN  IF val # None /\ ~isna(val)
           THEN <<(<<pct, val.v>>)>> \o BuildPoints(row, j + 1)
           ELSE BuildPoints(row, j + 1)

\* Variant of Interpolate that returns the breach percentile itself instead
\* of 100 minus it.
Interpolate_Breach(p_lo, rt_lo, p_hi, rt_hi, threshold_ms) ==
  IF rt_hi = rt_lo
  THEN Rat(p_lo, 1)
  ELSE Rat(p_lo * (rt_hi - rt_lo) + (threshold_ms - rt_lo) * (p_hi - p_lo),
           rt_hi - rt_lo)

\* Variant of Interpolate that takes p_lo as the breach percentile whatever
\* the latencies are.
Interpolate_AtLow(p_lo, rt_lo, p_hi, rt_hi, threshold_ms) == Rat(100 - p_lo, 1)

\* Lines 113-118: the value returned from inside the scan.
Interpolate(p_lo, rt_lo, p_hi, rt_hi, threshold_ms) ==
  IF rt_hi = rt_lo
  THEN Rat(100 - p_lo, 1)
  ELSE Rat((100 - p_lo) * (rt_hi - rt_lo) - (threshold_ms - rt_lo) * (p_hi - p_lo),
           rt_hi - rt_lo)

\* Variant of ScanPairs that keeps the last bracketing pair, not the first.
ScanPairs_Last(points, threshold_ms, i) ==
  LET B == {k \in i..(Len(points) - 1) :
              points[k][2] < threshold_ms /\ threshold_ms <= points[k + 1][2]}
      k == CHOOSE x \in B : \A y \in B : y <= x
  IN  IF B = {}
      THEN IF points[1][2] >= threshold_ms THEN Hundred ELSE Zero
      ELSE Interpolate(points[k][1], points[k][2],
                       points[k + 1][1], points[k + 1][2], threshold_ms)

\* Variant of ScanPairs whose bracket test is strict on both sides.
ScanPairs_StrictUpper(points, threshold_ms, i) ==
  LET B == {k \in i..(Len(points) - 1) :
              points[k][2] < threshold_ms /\ threshold_ms < points[k + 1][2]}
      k == CHOOSE x \in B : \A y \in B : x <= y
  IN  IF B = {}
      THEN IF points[1][2] >= threshold_ms THEN Hundred ELSE Zero
      ELSE Interpolate(points[k][1], points[k][2],
                       points[k + 1][1], points[k + 1][2], threshold_ms)

\* Lines 108-123: the scan of adjacent pairs from index i, then the fallback.
RECURSIVE ScanPairs(_, _, _)
ScanPairs(points, threshold_ms, i) ==
  IF i > Len(points) - 1
  THEN IF points[1][2] >= threshold_ms THEN Hundred ELSE Zero
  ELSE LET p_lo == points[i][1]
           rt_lo == points[i][2]
           p_hi == points[i + 1][1]
           rt_hi == points[i + 1][2]
       IN  IF rt_lo < threshold_ms /\ threshold_ms <= rt_hi
           THEN Interpolate(p_lo, rt_lo, p_hi, rt_hi, threshold_ms)
           ELSE ScanPairs(points, threshold_ms, i + 1)

\* Variant of EstimateFromPoints that reports 100.0 when there are no points.
EstimateFromPoints_EmptyIsFull(points, threshold_ms) ==
  IF points = <<>> THEN Hundred
  ELSE IF \A i \in 1..Len(points) : points[i][2] < threshold_ms THEN Zero
  ELSE IF points[1][2] >= threshold_ms THEN Hundred
  ELSE ScanPairs(points, threshold_ms, 1)

\* Variant of EstimateFromPoints whose lowest-point test is strict.
EstimateFromPoints_Strict(points, threshold_ms) ==
  IF points = <<>> THEN Zero
  ELSE IF \A i \in 1..Len(points) : points[i][2] < threshold_ms THEN Zero
  ELSE IF points[1][2] > threshold_ms THEN Hundred
  ELSE ScanPairs(points, threshold_ms, 1)

\* Lines 95-105: the three early returns.
EstimateFromPoints(points, threshold_ms) ==
  IF points = <<>> THEN Zero
  ELSE IF \A i \in 1..Len(points) : points[i][2] < threshold_ms THEN Zero
  ELSE IF points[1][2] >= threshold_ms THEN Hundred
  ELSE ScanPairs(points, threshold_ms, 1)

estimate_sla_violation_pct(row, threshold_ms) ==
  EstimateFromPoints(BuildPoints(row, 1), threshold_ms)

\* Variant of ScanSite whose scan starts at the second pair.
ScanSite_SkipFirst(points, threshold_ms, i) ==
  LET B == {k \in (i + 1)..(Len(points) - 1) :
              points[k][2] < threshold_ms /\ threshold_ms <= points[k + 1][2]}
      k == CHOOSE x \in B : \A y \in B : x <= y
  IN  IF B = {}
      THEN IF points[1][2] >= threshold_ms THEN "line 122" ELSE "line 123"
      ELSE IF points[k + 1][2] = points[k][2] THEN "line 114" ELSE "line 117"

\* The place the scan of lines 108-123 leaves the function from: the
\* degenerate branch (line 114) or the interpolation (line 117), both returned
\* at line 118, or the fallback's 100.0 (line 122) or 0.0 (line 123).
RECURSIVE ScanSite(_, _, _)
ScanSite(points, threshold_ms, i) ==
  IF i > Len(points) - 1
  THEN IF points[1][2] >= threshold_ms THEN "line 122" ELSE "line 123"
  ELSE LET rt_lo == points[i][2]
           rt_hi == points[i + 1][2]
       IN  IF rt_lo < threshold_ms /\ threshold_ms <= rt_hi
           THEN IF rt_hi = rt_lo THEN "line 114" ELSE "line 117"
           ELSE ScanSite(points, threshold_ms, i + 1)

\* The place a call returns from: lines 96, 100, 105, or one of the scan's.
ReturnSite(points, threshold_ms) ==
  IF points = <<>> THEN "line 96"
  ELSE IF \A i \in 1..Len(points) : points[i][2] < threshold_ms THEN "line 100"
  ELSE IF points[1][2] >= threshold_ms THEN "line 105"
  ELSE ScanSite(points, threshold_ms, 1)

\* ------------------------------------------------------------ outcomes
\* What a call does: returns a value, returns None, or raises.
Return(v) == [tag |-> "return", val |-> v]
ReturnNone == [tag |-> "None", val |-> <<>>]
Raise(e) == [tag |-> "raise", val |-> e]

\* ------------------------------------------------------------- load_stats
\* The file of one level: missing, unreadable as CSV, or a table with its
\* columns and rows.
AbsentFile == [kind |-> "absent", columns |-> {}, rows |-> <<>>]
MalformedFile == [kind |-> "malformed", columns |-> {}, rows |-> <<>>]
CsvFile(columns, rows) == [kind |-> "csv", columns |-> columns, rows |-> rows]

\* Variant of load_stats that reports an unreadable file as absent.
load_stats_Swallow(file) ==
  IF file.kind = "csv"
  THEN Return([columns |-> file.columns, rows |-> file.rows])
  ELSE ReturnNone

\* Lines 57-61: os.path.exists, then pd.read_csv, which raises on a file it
\* cannot parse.
load_stats(file) ==
  IF file.kind = "absent" THEN ReturnNone
  ELSE IF file.kind = "malformed" THEN Raise("ParserError")
  ELSE Return([columns |-> file.columns, rows |-> file.rows])

\* --------------------------------------------------------- get_aggregated
\* df[df["Name"] == "Aggregated"]
AggregatedRows(df) == SelectSeq(df.rows, LAMBDA r : r["Name"] = "Aggregated")

\* Variant of get_aggregated that takes the last matching row.
get_aggregated_Last(df) ==
  IF "Name" \notin df.columns THEN Raise("KeyError")
  ELSE LET agg == AggregatedRows(df)
       IN  IF agg # <<>> THEN Return(agg[Len(agg)])
           ELSE IF df.rows = <<>> THEN Raise("IndexError")
           ELSE Return(df.rows[Len(df.rows)])

\* Variant of get_aggregated that returns an empty row for an empty table.
get_aggregated_EmptyRow(df) ==
  IF "Name" \notin df.columns THEN Raise("KeyError")
  ELSE LET agg == AggregatedRows(df)
       IN  IF agg # <<>> THEN Return(agg[1])
           ELSE IF df.rows = <<>> THEN Return([c \in {} |-> NaN])
           ELSE Return(df.rows[Len(df.rows)])

\* Lines 71-73: df["Name"] raises KeyError without the column; iloc[-1] of a
\* table without rows raises IndexError.
get_aggregated(df) ==
  IF "Name" \notin df.columns THEN Raise("KeyError")
  ELSE LET agg == AggregatedRows(df)
       IN  IF agg # <<>> THEN Return(agg[1])
           ELSE IF df.rows = <<>> THEN Raise("IndexError")
           ELSE Return(df.rows[Len(df.rows)])

\* -------------------------------------------------- collect_metrics, one level
\* max(x, 1) of Python: x unless 1 > x; a NaN compares false and is kept.
Max1(x) == IF isna(x) THEN x ELSE IF 1 > x.v THEN Num(1) ELSE x

\* The dict of lines 136-148 for the aggregate row r of level n.
RowDict(n, r, total, failures, sla_viol) ==
  [Users |-> n,
   Avg |-> Get(r, "Average Response Time", Num(0)),
   Median |-> Get(r, "Median Response Time", Num(0)),
   p95 |-> Get(r, "95%", Get(r, "95% Response Time", Num(0))),
   p99 |-> Get(r, "99%", Get(r, "99% Response Time", Num(0))),
   Max |-> Get(r, "Max Response Time", Num(0)),
   ReqPerSec |-> Get(r, "Requests/s", Num(0)),
   Failures |-> failures.v,
   Total |-> total.v,
   ErrorPct |-> Rat(failures.v * 100, total.v),
   SLAViol |-> sla_viol]

\* Variant of MetricsRow without the max(..., 1) guard on the request count.
MetricsRow_NoGuard(n, r) ==
  LET total == Get(r, "Request Count", Num(1))
      failures == Get(r, "Failure Count", Num(0))
      sla_viol == estimate_sla_violation_pct(r, SLA_THRESHOLD_MS)
  IN  IF isna(failures) \/ isna(total) THEN Raise("ValueError")
      ELSE Return(RowDict(n, r, total, failures, sla_viol))

\* Lines 133-148: the row appended for level n from its aggregate row r.
\* int() of a NaN raises ValueError.
MetricsRow(n, r) ==
  LET total == Max1(Get(r, "Request Count", Num(1)))
      failures == Get(r, "Failure Count", Num(0))
      sla_viol == estimate_sla_violation_pct(r, SLA_THRESHOLD_MS)
  IN  IF isna(failures) \/ isna(total) THEN Raise("ValueError")
      ELSE Return(RowDict(n, r, total, failures, sla_viol))

\* Lines 129-148: one iteration of the loop for level n: the row to append,
\* None when the level is skipped, or the exception that leaves the function.
LevelStep(n, file) ==
  LET df == load_stats(file)
  IN  IF df.tag = "raise" THEN df
      ELSE IF df.tag = "None" THEN ReturnNone
      ELSE LET r == get_aggregated(df.val)
           IN  IF r.tag = "raise" THEN r ELSE MetricsRow(n, r.val)

\* ------------------------------------------------------------------ state
VARIABLES
  est_pc,        \* estimate_sla_violation_pct: "idle" | "call" | "returned"
  est_row,       \* its argument row
  est_threshold, \* its argument threshold_ms
  est_ret,       \* its return value
  agg_pc,        \* get_aggregated: "idle" | "call" | "done"
  agg_df,        \* its argument df
  agg_out,       \* its outcome
  mr_pc,         \* the loop body on one aggregate row: "idle" | "call" | "done"
  mr_n,          \* the level n
  mr_r,          \* the aggregate row r
  mr_out,        \* its outcome
  cm_pc,         \* collect_metrics: "idle" | "loop" | "returned" | "raised"
  cm_levels,     \* the list of levels iterated
  cm_i,          \* index in cm_levels of the next level
  cm_files,      \* the file found for each level handled so far
  cm_rows,       \* the local list rows
  cm_out,        \* the outcome of collect_metrics
  par_pc,        \* one worker per level: "idle" | "run" | "assembled"
  par_levels,    \* the list of levels, one worker each
  par_files,     \* the file of each level
  w_pc,          \* per worker: "load" | "reduce" | "build" | "done"
  w_df,          \* per worker: its local df
  w_r,           \* per worker: its local r
  w_out,         \* per worker: the outcome of its loop body
  par_out        \* the outcome assembled from the workers

est_vars == <<est_pc, est_row, est_threshold, est_ret>>
agg_vars == <<agg_pc, agg_df, agg_out>>
mr_vars == <<mr_pc, mr_n, mr_r, mr_out>>
cm_vars == <<cm_pc, cm_levels, cm_i, cm_files, cm_rows, cm_out>>
par_vars == <<par_pc, par_levels, par_files, w_pc, w_df, w_r, w_out, par_out>>
vars == <<est_vars, agg_vars, mr_vars, cm_vars, par_vars>>

EstIdle ==
  est_pc = "idle" /\ est_row = <<>> /\ est_threshold = SLA_THRESHOLD_MS /\ est_ret = Zero
AggIdle == agg_pc = "idle" /\ agg_df = <<>> /\ agg_out = ReturnNone
MrIdle == mr_pc = "idle" /\ mr_n = USER_COUNTS[1] /\ mr_r = <<>> /\ mr_out = ReturnNone
CmIdle ==
  /\ cm_pc = "idle" /\ cm_levels = <<>> /\ cm_i = 1
  /\ cm_files = <<>> /\ cm_rows = <<>> /\ cm_out = ReturnNone
ParIdle ==
  /\ par_pc = "idle" /\ par_levels = <<>> /\ par_files = <<>>
  /\ w_pc = <<>> /\ w_df = <<>> /\ w_r = <<>> /\ w_out = <<>>
  /\ par_out = ReturnNone

\* --------------------------------------------------- inputs of the estimator
Latencies == {800, 2500, 4200}
Thresholds == {2500, SLA_THRESHOLD_MS, 4200}

PctNames == {pct_cols[j][2] : j \in 1..Len(pct_cols)}

\* A row whose percentile columns in S hold numbers; the other percentile
\* columns are empty cells (nanfill) or missing from the row.  The rows tried
\* hold at most MaxPoints numbers, and the ones with empty cells fewer.
PctRow(S, f, nanfill) ==
  [c \in (IF nanfill THEN PctNames ELSE S) |-> IF c \in S THEN Num(f[c]) ELSE NaN]

\* The row of the spec's scenario 1: P = [(50,800),(95,2500),(99,4200),(100,5000)].
Scenario1Row ==
  [c \in {"50%", "95%", "99%", "100%"} |->
     IF c = "50%" THEN Num(800)
     ELSE IF c = "95%" THEN Num(2500)
     ELSE IF c = "99%" THEN Num(4200)
     ELSE Num(5000)]

EstInit ==
  /\ est_pc = "call"
  /\ \/ \E S \in SUBSET PctNames :
          /\ Cardinality(S) <= MaxPoints
          /\ \E f \in [S -> Latencies], b \in BOOLEAN :
               /\ b => Cardinality(S) < MaxPoints
               /\ est_row = PctRow(S, f, b)
     \/ est_row = Scenario1Row
  /\ est_threshold = SLA_THRESHOLD_MS
  /\ est_ret = Zero
  /\ AggIdle /\ MrIdle /\ CmIdle /\ ParIdle

\* One call of estimate_sla_violation_pct(row, threshold_ms).
Estimate ==
  /\ est_pc = "call"
  /\ \E t \in Thresholds :
       /\ est_threshold' = t
       /\ est_ret' = estimate_sla_violation_pct(est_row, t)
  /\ est_pc' = "returned"
  /\ UNCHANGED <<est_row, agg_vars, mr_vars, cm_vars, par_vars>>

SpecEst == EstInit /\ [][Estimate]_vars

\* ------------------------------------------------ inputs of get_aggregated
Endpoints == {"Aggregated", "GET /users/[id]", "POST /orders"}
AggColumns == {"Name", "Request Count"}

AggInit ==
  /\ agg_pc = "call"
  /\ \E k \in 0..MaxRows :
       \E names \in [1..k -> Endpoints], counts \in [1..k -> 0..MaxCount] :
         \/ agg_df = [columns |-> AggColumns,
                      rows |-> [j \in 1..k |->
                                  [c \in AggColumns |->
                                     IF c = "Name" THEN names[j] ELSE Num(counts[j])]]]
         \/ /\ \A j \in 1..k : names[j] = "Aggregated"
            /\ agg_df = [columns |-> {"Request Count"},
                         rows |-> [j \in 1..k |->
                                     [c \in {"Request Count"} |-> Num(counts[j])]]]
  /\ agg_out = ReturnNone
  /\ EstIdle /\ MrIdle /\ CmIdle /\ ParIdle

\* One call of get_aggregated(df).
Reduce ==
  /\ agg_pc = "call"
  /\ agg_out' = get_aggregated(agg_df)
  /\ agg_pc' = "done"
  /\ UNCHANGED <<agg_df, est_vars, mr_vars, cm_vars, par_vars>>

SpecAgg == AggInit /\ [][Reduce]_vars

\* ---------------------------------------------- inputs of the loop body
Levels == {USER_COUNTS[j] : j \in 1..Len(USER_COUNTS)}

\* None stands for "the column is missing from the row".
CountCells == {None, NaN} \cup {Num(c) : c \in 0..MaxCount}
PctProfiles == {[c \in {} |-> NaN], Scenario1Row, [c \in {"50%"} |-> Num(4200)]}

\* An aggregate row: its name, its count cells, an optional average and the
\* percentile cells of a profile.
AggregateRow(name, rc, fc, avg, prof) ==
  [c \in ({"Name"} \cup (IF rc = None THEN {} ELSE {"Request Count"})
                   \cup (IF fc = None THEN {} ELSE {"Failure Count"})
                   \cup (IF avg = None THEN {} ELSE {"Average Response Time"})
                   \cup DOMAIN prof) |->
     IF c = "Name" THEN name
     ELSE IF c = "Request Count" THEN rc
     ELSE IF c = "Failure Count" THEN fc
     ELSE IF c = "Average Response Time" THEN avg
     ELSE prof[c]]

MrInit ==
  /\ mr_pc = "call"
  /\ mr_n \in Levels
  /\ \E rc \in CountCells, fc \in CountCells, avg \in {None, Num(120)},
        prof \in PctProfiles :
       mr_r = AggregateRow("Aggregated", rc, fc, avg, prof)
  /\ mr_out = ReturnNone
  /\ EstIdle /\ AggIdle /\ CmIdle /\ ParIdle

\* Lines 133-148 for one aggregate row.
BuildRow ==
  /\ mr_pc = "call"
  /\ mr_out' = MetricsRow(mr_n, mr_r)
  /\ mr_pc' = "done"
  /\ UNCHANGED <<mr_n, mr_r, est_vars, agg_vars, cm_vars, par_vars>>

SpecRow == MrInit /\ [][BuildRow]_vars

\* ------------------------------------------------ inputs of collect_metrics
FullColumns == {"Name", "Request Count", "Failure Count"} \cup DOMAIN Scenario1Row
AggSample(rc, fc) == AggregateRow("Aggregated", rc, fc, None, Scenario1Row)
OtherSample == AggregateRow("POST /orders", Num(1), Num(1), None, Scenario1Row)

\* The files a level may have: none, an unreadable one, a table without rows,
\* and tables with or without an Aggregated row, with and without the count
\* columns, with an empty count cell.
SampleFiles ==
  {AbsentFile, MalformedFile,
   CsvFile(FullColumns, <<>>),
   CsvFile(FullColumns, <<AggSample(Num(0), Num(0))>>),
   CsvFile(FullColumns, <<OtherSample, AggSample(Num(MaxCount), Num(1))>>),
   CsvFile(FullColumns, <<AggSample(Num(1), Num(0)), OtherSample>>),
   CsvFile(FullColumns, <<OtherSample>>),
   CsvFile(FullColumns, <<AggSample(Num(1), NaN)>>),
   CsvFile({"Name"} \cup DOMAIN Scenario1Row, <<AggSample(None, None)>>)}

\* The lists of levels: the levels of USER_COUNTS, distinct, in any order.
IsLevelList(l) ==
  /\ \A j \in 1..Len(l) : l[j] \in Levels
  /\ \A j, k \in 1..Len(l) : j # k => l[j] # l[k]

Init ==
  /\ cm_pc = "loop"
  /\ \E k \in 0..MaxLevels :
       \E l \in [1..k -> Levels] : IsLevelList(l) /\ cm_levels = l
  /\ cm_i = 1
  /\ cm_files = <<>>
  /\ cm_rows = <<>>
  /\ cm_out = ReturnNone
  /\ EstIdle /\ AggIdle /\ MrIdle /\ ParIdle

\* One iteration of the loop of lines 128-148 on the level's file.
Iterate(file) ==
  /\ cm_pc = "loop"
  /\ cm_i <= Len(cm_levels)
  /\ cm_files' = Append(cm_files, file)
  /\ LET out == LevelStep(cm_levels[cm_i], file)
     IN  \/ /\ out.tag = "raise"
            /\ cm_pc' = "raised"
            /\ cm_out' = out
            /\ UNCHANGED <<cm_i, cm_rows>>
         \/ /\ out.tag = "None"
            /\ cm_i' = cm_i + 1
            /\ UNCHANGED <<cm_pc, cm_rows, cm_out>>
         \/ /\ out.tag = "return"
            /\ cm_rows' = Append(cm_rows, out.val)
            /\ cm_i' = cm_i + 1
            /\ UNCHANGED <<cm_pc, cm_out>>
  /\ UNCHANGED <<cm_levels, est_vars, agg_vars, mr_vars, par_vars>>

\* rows sorted ascending by Users.
RECURSIVE SortedByUsers(_)
SortedByUsers(rows) ==
  IF rows = <<>> THEN <<>>
  ELSE LET m == CHOOSE j \in 1..Len(rows) : \A k \in 1..Len(rows) : rows[j].Users <= rows[k].Users
           rest == [k \in 1..(Len(rows) - 1) |-> IF k < m THEN rows[k] ELSE rows[k + 1]]
       IN  <<rows[m]>> \o SortedByUsers(rest)

\* Variant of ReturnTable that sorts the table by concurrency.
ReturnTable_Sorted ==
  /\ cm_pc = "loop"
  /\ cm_i > Len(cm_levels)
  /\ cm_pc' = "returned"
  /\ cm_out' = Return(SortedByUsers(cm_rows))
  /\ UNCHANGED <<cm_levels, cm_i, cm_files, cm_rows, est_vars, agg_vars, mr_vars, par_vars>>

\* Line 149: return pd.DataFrame(rows).
ReturnTable ==
  /\ cm_pc = "loop"
  /\ cm_i > Len(cm_levels)
  /\ cm_pc' = "returned"
  /\ cm_out' = Return(cm_rows)
  /\ UNCHANGED <<cm_levels, cm_i, cm_files, cm_rows, est_vars, agg_vars, mr_vars, par_vars>>

Next == (\E file \in SampleFiles : Iterate(file)) \/ ReturnTable

Spec == Init /\ [][Next]_vars

\* ------------------------------------------- one worker per level
\* The loop body of lines 129-148 run by one worker per level, the workers
\* interleaved step by step, each on its own df and r; the table is put
\* together from the workers' outcomes in the order of the list.
Workers == 1..Len(par_levels)

ParInit ==
  /\ par_pc = "run"
  /\ \E k \in 0..MaxLevels, rev \in BOOLEAN :
       /\ par_levels = [j \in 1..k |-> USER_COUNTS[IF rev THEN k + 1 - j ELSE j]]
       /\ par_files \in [1..k -> SampleFiles]
       /\ w_pc = [j \in 1..k |-> "load"]
       /\ w_df = [j \in 1..k |-> <<>>]
       /\ w_r = [j \in 1..k |-> <<>>]
       /\ w_out = [j \in 1..k |-> ReturnNone]
  /\ par_out = ReturnNone
  /\ EstIdle /\ AggIdle /\ MrIdle /\ CmIdle

\* Line 129-131 in worker w: df = load_stats(n); a None ends the level.
WorkerLoad(w) ==
  /\ par_pc = "run"
  /\ w_pc[w] = "load"
  /\ LET out == load_stats(par_files[w])
     IN  IF out.tag = "return"
         THEN /\ w_df' = [w_df EXCEPT ![w] = out.val]
              /\ w_pc' = [w_pc EXCEPT ![w] = "reduce"]
              /\ UNCHANGED w_out
         ELSE /\ w_out' = [w_out EXCEPT ![w] = out]
              /\ w_pc' = [w_pc EXCEPT ![w] = "done"]
              /\ UNCHANGED w_df
  /\ UNCHANGED <<par_pc, par_levels, par_files, w_r, par_out,
                 est_vars, agg_vars, mr_vars, cm_vars>>

\* Variant of WorkerReduce in which df is one variable shared by the workers:
\* the worker reduces the table the first worker holds, when it holds one.
WorkerReduce_Shared(w) ==
  /\ par_pc = "run"
  /\ w_pc[w] = "reduce"
  /\ LET out == get_aggregated(IF w_pc[1] \in {"reduce", "build"}
                               THEN w_df[1] ELSE w_df[w])
     IN  IF out.tag = "return"
         THEN /\ w_r' = [w_r EXCEPT ![w] = out.val]
              /\ w_pc' = [w_pc EXCEPT ![w] = "build"]
              /\ UNCHANGED w_out
         ELSE /\ w_out' = [w_out EXCEPT ![w] = out]
              /\ w_pc' = [w_pc EXCEPT ![w] = "done"]
              /\ UNCHANGED w_r
  /\ UNCHANGED <<par_pc, par_levels, par_files, w_df, par_out,
                 est_vars, agg_vars, mr_vars, cm_vars>>

\* Line 132 in worker w: r = get_aggregated(df).
WorkerReduce(w) ==
  /\ par_pc = "run"
  /\ w_pc[w] = "reduce"
  /\ LET out == get_aggregated(w_df[w])
     IN  IF out.tag = "return"
         THEN /\ w_r' = [w_r EXCEPT ![w] = out.val]
              /\ w_pc' = [w_pc EXCEPT ![w] = "build"]
              /\ UNCHANGED w_out
         ELSE /\ w_out' = [w_out EXCEPT ![w] = out]
              /\ w_pc' = [w_pc EXCEPT ![w] = "done"]
              /\ UNCHANGED w_r
  /\ UNCHANGED <<par_pc, par_levels, par_files, w_df, par_out,
                 est_vars, agg_vars, mr_vars, cm_vars>>

\* Lines 133-148 in worker w: the row of its level.
WorkerBuild(w) ==
  /\ par_pc = "run"
  /\ w_pc[w] = "build"
  /\ w_out' = [w_out EXCEPT ![w] = MetricsRow(par_levels[w], w_r[w])]
  /\ w_pc' = [w_pc EXCEPT ![w] = "done"]
  /\ UNCHANGED <<par_pc, par_levels, par_files, w_df, w_r, par_out,
                 est_vars, agg_vars, mr_vars, cm_vars>>

\* The outcomes outs[j..] put together in the order of the list: the first
\* exception, else the table of the rows.
RECURSIVE Gather(_, _, _)
Gather(outs, j, rows) ==
  IF j > Len(outs) THEN Return(rows)
  ELSE IF outs[j].tag = "raise" THEN outs[j]
  ELSE IF outs[j].tag = "None" THEN Gather(outs, j + 1, rows)
  ELSE Gather(outs, j + 1, Append(rows, outs[j].val))

\* All workers are done: the table, or the exception, is handed to the caller.
Assemble ==
  /\ par_pc = "run"
  /\ \A w \in Workers : w_pc[w] = "done"
  /\ par_out' = Gather(w_out, 1, <<>>)
  /\ par_pc' = "assembled"
  /\ UNCHANGED <<par_levels, par_files, w_pc, w_df, w_r, w_out,
                 est_vars, agg_vars, mr_vars, cm_vars>>

ParNext ==
  \/ \E w \in Workers : WorkerLoad(w)
  \/ \E w \in Workers : WorkerReduce(w)
  \/ \E w \in Workers : WorkerBuild(w)
  \/ Assemble

SpecPar == ParInit /\ [][ParNext]_vars

\* ------------------------------------------------- claims on the estimator
\* The percentile points of a row, read off the row itself: the indices of
\* pct_cols whose column holds a number.
NumericIdx(row) ==
  {j \in 1..Len(pct_cols) :
     pct_cols[j][2] \in DOMAIN row /\ row[pct_cols[j][2]].k = "num"}
LatencyAt(row, j) == row[pct_cols[j][2]].v
LowestIdx(row) == CHOOSE j \in NumericIdx(row) : \A k \in NumericIdx(row) : j <= k
AllBelow(row, t) == \A j \in NumericIdx(row) : LatencyAt(row, j) < t
\* The adjacent pairs <<j, k>> of available points.
AdjacentPairs(row) ==
  {jk \in NumericIdx(row) \X NumericIdx(row) :
     /\ jk[1] < jk[2]
     /\ ~\E m \in NumericIdx(row) : jk[1] < m /\ m < jk[2]}
Brackets(row, t) ==
  {jk \in AdjacentPairs(row) :
     LatencyAt(row, jk[1]) < t /\ t <= LatencyAt(row, jk[2])}
FirstBracket(row, t) ==
  LET B == Brackets(row, t) IN CHOOSE jk \in B : \A o \in B : jk[1] <= o[1]
\* 100 - (p_lo + (T - rt_lo) / (rt_hi - rt_lo) * (p_hi - p_lo)) for the pair jk.
ViolationAt(row, jk, t) ==
  LET p_lo == pct_cols[jk[1]][1]
      p_hi == pct_cols[jk[2]][1]
      rt_lo == LatencyAt(row, jk[1])
      rt_hi == LatencyAt(row, jk[2])
  IN  Rat(100 * (rt_hi - rt_lo) - (p_lo * (rt_hi - rt_lo) + (t - rt_lo) * (p_hi - p_lo)),
          rt_hi - rt_lo)

\* C1: if every latency of the row's points is strictly below the threshold
\* (the empty sequence included), the estimator returns 0.0.
C1_AllBelowIsZero ==
  (est_pc = "returned" /\ AllBelow(est_row, est_threshold)) => est_ret = Zero

C1_Witness ==
  /\ est_pc = "returned"
  /\ NumericIdx(est_row) # {}
  /\ AllBelow(est_row, est_threshold)
  /\ est_ret = Zero

\* C2: if the latency of the lowest available percentile point is at or above
\* the threshold, the estimator returns 100.0, whatever the higher points are.
C2_LowestAtOrAboveIsHundred ==
  (/\ est_pc = "returned"
   /\ NumericIdx(est_row) # {}
   /\ LatencyAt(est_row, LowestIdx(est_row)) >= est_threshold)
  => est_ret = Hundred

C2_Witness ==
  /\ est_pc = "returned"
  /\ NumericIdx(est_row) # {}
  /\ LatencyAt(est_row, LowestIdx(est_row)) >= est_threshold
  /\ \E j \in NumericIdx(est_row) : LatencyAt(est_row, j) < est_threshold
  /\ est_ret = Hundred

\* The case of C3: the lowest point is below the threshold and some point is
\* at or above it.
Crossing(row, t) ==
  /\ NumericIdx(row) # {}
  /\ LatencyAt(row, LowestIdx(row)) < t
  /\ ~AllBelow(row, t)

C3_FirstBracketInterpolated ==
  (est_pc = "returned" /\ Crossing(est_row, est_threshold))
  => /\ Brackets(est_row, est_threshold) # {}
     /\ RatEq(est_ret,
              ViolationAt(est_row, FirstBracket(est_row, est_threshold), est_threshold))

\* C3 as stated: the first bracketing pair is interpolated, and scenario 1
\* yields about 2.14 (between 2.13 and 2.15).
C3_AsStated ==
  /\ C3_FirstBracketInterpolated
  /\ (est_pc = "returned" /\ est_row = Scenario1Row /\ est_threshold = 3000)
     => (213 * est_ret.d <= 100 * est_ret.n /\ 100 * est_ret.n <= 215 * est_ret.d)

\* C3 (amended): in the crossing case the estimator returns
\* 100 - (p_lo + (T - rt_lo)/(rt_hi - rt_lo) * (p_hi - p_lo)) for the first
\* adjacent pair with rt_lo < T <= rt_hi, and scenario 1 yields 65/17, about
\* 3.82.
C3_Amended ==
  /\ C3_FirstBracketInterpolated
  /\ (est_pc = "returned" /\ est_row = Scenario1Row /\ est_threshold = 3000)
     => RatEq(est_ret, Rat(65, 17))

\* A crossing where a later pair brackets the threshold as well.
C3_Witness ==
  /\ est_pc = "returned"
  /\ Crossing(est_row, est_threshold)
  /\ Cardinality(Brackets(est_row, est_threshold)) >= 2
  /\ RatLt(Zero, est_ret)

\* The thresholds C4 compares: every latency, the estimator's thresholds, and
\* one above each of the larger latencies.
MonoThresholds ==
  Latencies \cup Thresholds \cup {x + 1 : x \in Latencies \ {800}}

\* C4: for a fixed row the estimate is non-increasing in the threshold: the
\* returned value is at least the estimate at every larger threshold and at
\* most the estimate at every smaller one.
C4_MonotoneInThreshold ==
  est_pc = "returned" =>
    \A t \in MonoThresholds :
      /\ t >= est_threshold
           => RatLe(estimate_sla_violation_pct(est_row, t), est_ret)
      /\ t <= est_threshold
           => RatLe(est_ret, estimate_sla_violation_pct(est_row, t))

\* Non-monotonic latencies and a strictly smaller, still positive estimate at
\* a larger threshold.
C4_Witness ==
  /\ est_pc = "returned"
  /\ \E jk \in AdjacentPairs(est_row) :
       LatencyAt(est_row, jk[1]) > LatencyAt(est_row, jk[2])
  /\ \E t \in MonoThresholds :
       /\ t > est_threshold
       /\ RatLt(estimate_sla_violation_pct(est_row, t), est_ret)
       /\ RatLt(Zero, estimate_sla_violation_pct(est_row, t))

\* C13: a call returns from the 0.0 of lines 96/100, the 100.0 of line 105 or
\* the interpolation of the scan; when the first two do not apply a pair with
\* rt_lo < T <= rt_hi exists and has rt_hi > rt_lo, so the degenerate branch
\* and the fallback after the loop are never taken.
C13_ThreeReturnSites ==
  est_pc = "returned" =>
    LET site == ReturnSite(BuildPoints(est_row, 1), est_threshold)
    IN  /\ site \in {"line 96", "line 100", "line 105", "line 117"}
        /\ site \in {"line 96", "line 100"} => est_ret = Zero
        /\ site = "line 105" => est_ret = Hundred
        /\ site = "line 117" =>
             /\ Brackets(est_row, est_threshold) # {}
             /\ LET jk == FirstBracket(est_row, est_threshold)
                IN  /\ LatencyAt(est_row, jk[2]) > LatencyAt(est_row, jk[1])
                    /\ RatEq(est_ret, ViolationAt(est_row, jk, est_threshold))

\* An interpolated return from a row with equal latencies at two adjacent
\* percentiles and a drop of latency between two others.
C13_Witness ==
  /\ est_pc = "returned"
  /\ ReturnSite(BuildPoints(est_row, 1), est_threshold) = "line 117"
  /\ \E jk \in AdjacentPairs(est_row) :
       LatencyAt(est_row, jk[1]) = LatencyAt(est_row, jk[2])
  /\ \E jk \in AdjacentPairs(est_row) :
       LatencyAt(est_row, jk[1]) > LatencyAt(est_row, jk[2])

FirstReaching(row, t) ==
  LET R == {j \in NumericIdx(row) : LatencyAt(row, j) >= t}
  IN  CHOOSE j \in R : \A k \in R : j <= k

\* The lowest latency is below t and the first point to reach t is the 100th
\* percentile, with latency exactly t.
TouchesAtMax(row, t) ==
  /\ LatencyAt(row, LowestIdx(row)) < t
  /\ pct_cols[FirstReaching(row, t)][1] = 100
  /\ LatencyAt(row, FirstReaching(row, t)) = t

RECURSIVE PresentLevels(_)
PresentLevels(j) ==
  IF j = 0 THEN <<>>
  ELSE IF cm_files[j].kind = "absent" THEN PresentLevels(j - 1)
  ELSE Append(PresentLevels(j - 1), cm_levels[j])

UsersOf(rows) == [j \in 1..Len(rows) |-> rows[j].Users]

\* C5: the table returned by collect_metrics lists exactly the levels whose
\* summary is present, in the order of the input list: no re-sorting, no
\* duplicate, no absent level, and as many rows as present levels.
C5_TableIsPresentLevelsInOrder ==
  cm_pc = "returned" =>
    /\ cm_out.tag = "return"
    /\ Len(cm_files) = Len(cm_levels)
    /\ UsersOf(cm_out.val) = PresentLevels(Len(cm_levels))

\* A table of two rows for a list given in descending order.
C5_Witness ==
  /\ cm_pc = "returned"
  /\ Len(cm_levels) = 2
  /\ cm_levels[1] > cm_levels[2]
  /\ Len(cm_out.val) = 2

\* The table has no row for level n.
NoRowFor(n) == \A j \in 1..Len(cm_rows) : cm_rows[j].Users # n

\* The call has failed on the file of position j: it raised there, handled no
\* later level, and neither a row for that level nor a table came out.
FailedAt(j) ==
  /\ cm_pc = "raised"
  /\ cm_out.tag = "raise"
  /\ j = Len(cm_files)
  /\ NoRowFor(cm_levels[j])

\* C8: a summary that exists but has zero rows makes get_aggregated fail, and
\* the error leaves collect_metrics: no row for the level, no table.
C8_EmptySummaryRaises ==
  \A j \in 1..Len(cm_files) :
    (cm_files[j].kind = "csv" /\ cm_files[j].rows = <<>>)
    => (FailedAt(j) /\ cm_out = Raise("IndexError"))

\* The error of an empty summary, after an earlier level gave a row.
C8_Witness ==
  /\ cm_pc = "raised"
  /\ cm_out = Raise("IndexError")
  /\ Len(cm_rows) = 1
  /\ cm_files[Len(cm_files)].rows = <<>>

\* The summary's aggregate row lacks the request-count or failure-count field.
LacksCounts(file) ==
  /\ file.kind = "csv"
  /\ file.rows # <<>>
  /\ ~({"Request Count", "Failure Count"} \subseteq file.columns)

\* C9: a summary whose aggregate row lacks the request-count or failure-count
\* field is surfaced as an error of collect_metrics; no row is made for that
\* level from default values.
C9_MissingCountsSurfaced ==
  \A j \in 1..Len(cm_files) : LacksCounts(cm_files[j]) => FailedAt(j)

\* C10: the loader returns None for an absent file and never raises for it; it
\* raises for a file it cannot parse and never reports it absent.  A malformed
\* level aborts collect_metrics with no table, also after earlier levels were
\* loaded; absent levels never abort it.
C10_AbsentSkippedMalformedAborts ==
  /\ \A j \in 1..Len(cm_files) :
       /\ cm_files[j].kind = "absent"
            => (load_stats(cm_files[j]) = ReturnNone /\ ~FailedAt(j))
       /\ cm_files[j].kind = "malformed"
            => (/\ load_stats(cm_files[j]).tag = "raise"
                /\ FailedAt(j)
                /\ cm_out = load_stats(cm_files[j]))
  /\ (\A j \in 1..Len(cm_files) : cm_files[j].kind = "absent") => cm_pc # "raised"
  /\ (cm_pc = "returned" /\ cm_files # <<>>
      /\ \A j \in 1..Len(cm_files) : cm_files[j].kind = "absent")
     => cm_out = Return(<<>>)

\* A malformed level after a level that gave a row and an absent one.
C10_Witness ==
  /\ cm_pc = "raised"
  /\ cm_files[Len(cm_files)].kind = "malformed"
  /\ Len(cm_rows) >= 1

\* ------------------------------------------------- claims on the loop body
\* The aggregate row has both counts, as non-negative integers.
HasCounts(r) ==
  /\ {"Request Count", "Failure Count"} \subseteq DOMAIN r
  /\ r["Request Count"].k = "num" /\ r["Request Count"].v >= 0
  /\ r["Failure Count"].k = "num" /\ r["Failure Count"].v >= 0

\* The error percentage is a number in [0, 100], and 0 for zero requests.
ErrorPctInRange ==
  /\ mr_out.tag = "return"
  /\ mr_out.val.ErrorPct.d > 0
  /\ RatLe(Zero, mr_out.val.ErrorPct)
  /\ RatLe(mr_out.val.ErrorPct, Hundred)
  /\ mr_r["Request Count"].v = 0 => RatEq(mr_out.val.ErrorPct, Zero)

\* C6 as stated: for every aggregate row with non-negative failure and request
\* counts the error percentage lies in [0, 100] and is 0 when the request
\* count is 0.
C6_AsStated ==
  (mr_pc = "done" /\ HasCounts(mr_r)) => ErrorPctInRange

\* C6 (amended): for every aggregate row with non-negative counts and no more
\* failures than requests, the error percentage failures / max(total, 1) * 100
\* lies in [0, 100] and is 0 when the request count is 0, with no division by
\* zero.
C6_Amended ==
  (/\ mr_pc = "done"
   /\ HasCounts(mr_r)
   /\ mr_r["Failure Count"].v <= mr_r["Request Count"].v)
  => /\ ErrorPctInRange
     /\ RatEq(mr_out.val.ErrorPct,
              Rat(mr_r["Failure Count"].v * 100,
                  IF mr_r["Request Count"].v > 1 THEN mr_r["Request Count"].v ELSE 1))

\* A run of zero requests.
C6_Witness ==
  /\ mr_pc = "done"
  /\ HasCounts(mr_r)
  /\ mr_r["Request Count"].v = 0
  /\ mr_r["Failure Count"].v = 0
  /\ mr_out.tag = "return"
  /\ RatEq(mr_out.val.ErrorPct, Zero)

\* C11: the Total field of the row equals the request count of the aggregate
\* row, also when that count is 0, and the Failures field equals its failure
\* count.
C11_CountsCopied ==
  (mr_pc = "done" /\ HasCounts(mr_r))
  => /\ mr_out.tag = "return"
     /\ mr_out.val.Total = mr_r["Request Count"].v
     /\ mr_out.val.Failures = mr_r["Failure Count"].v

\* ------------------------------------------------- claims on get_aggregated
AggregatedIdx(df) == {j \in 1..Len(df.rows) : df.rows[j]["Name"] = "Aggregated"}

\* C7: on a non-empty row sequence get_aggregated returns the first row named
\* "Aggregated" when there is one, else the last row, and does not fail.
C7_FirstAggregatedElseLast ==
  (agg_pc = "done" /\ "Name" \in agg_df.columns /\ agg_df.rows # <<>>)
  => /\ agg_out.tag = "return"
     /\ agg_out.val =
          IF AggregatedIdx(agg_df) # {}
          THEN agg_df.rows[CHOOSE j \in AggregatedIdx(agg_df) :
                             \A k \in AggregatedIdx(agg_df) : j <= k]
          ELSE agg_df.rows[Len(agg_df.rows)]

\* Two different Aggregated rows, neither of them the last row.
C7_Witness ==
  /\ agg_pc = "done"
  /\ "Name" \in agg_df.columns
  /\ Len(agg_df.rows) = 3
  /\ AggregatedIdx(agg_df) = {1, 2}
  /\ agg_df.rows[1] # agg_df.rows[2]
  /\ agg_out = Return(agg_df.rows[1])

\* ------------------------------------------- claims on per-level workers
\* The sequential loop of lines 128-149 on the levels from position j on.
RECURSIVE SequentialOutcome(_, _, _, _)
SequentialOutcome(levels, files, j, rows) ==
  IF j > Len(levels) THEN Return(rows)
  ELSE LET out == LevelStep(levels[j], files[j])
       IN  IF out.tag = "raise" THEN out
           ELSE IF out.tag = "None" THEN SequentialOutcome(levels, files, j + 1, rows)
           ELSE SequentialOutcome(levels, files, j + 1, Append(rows, out.val))

\* Two outcomes are the same: the same kind, with the same value.
SameOutcome(a, b) == a.tag = b.tag /\ a.val = b.val

====
